---- MODULE Spec2Model ----
(***************************************************************************)
(* Model of GleamSemanticTokensProvider (src/src/SemanticTokenProvider.ts) *)
(*                                                                         *)
(* Two specifications share this module:                                   *)
(*   SpecNorm  the match -> token pipeline of one token request            *)
(*             (_mapTSMatchesToSemanticTokens, _splitLine, the encoders    *)
(*             and the builder.push loop), run on bounded query results;   *)
(*   Spec      the provider's life cycle: initializeParser, the readiness  *)
(*             lock, the tree cache, provideDocumentSemanticTokens and     *)
(*             updateCachedTree under the host's event loop.               *)
(***************************************************************************)
EXTENDS Integers, Sequences, FiniteSets, TLC

(***************************************************************************)
(* Bounds of the model.                                                    *)
(***************************************************************************)
\* rows of a capture's positions range over 0..MaxRow
MaxRow == 2
\* columns of a capture's positions range over 0..MaxCol
MaxCol == 1
\* number of freely drawn captures in one query result
MaxCaptures == 1
\* length of a document's text, in characters
MaxLen == 1
\* changes one change event reports; also the number of change events a
\* cache entry receives between two parses
MaxEdits == 2
\* token requests suspended on the initialization promise at one time
MaxSuspended == 1

(***************************************************************************)
(* Generic helpers.                                                        *)
(***************************************************************************)
Range(s) == {s[i] : i \in DOMAIN s}

SeqsUpTo(S, n) == UNION {[1..k -> S] : k \in 0..n}

(***************************************************************************)
(* The legend (lines 5-26).  gleamSemanticTokenTypes is imported from      *)
(* ./_semanticTokenTypes, a generated file; the list used here is a small  *)
(* stand-in holding the category names of the specification's scenarios.   *)
(***************************************************************************)
gleamSemanticTokenTypes == <<"string", "operator">>

gleamSemanticTokenModifiers == <<>>

\* forEach((tokenType, index) => tokenTypesMap.set(tokenType, index)):
\* a later set() of the same key overwrites, so the greatest index wins.
MapOfList(list) ==
    [name \in Range(list) |->
        LET idx == {i \in DOMAIN list : list[i] = name}
        IN  (CHOOSE i \in idx : \A j \in idx : j <= i) - 1]

tokenTypesMap == MapOfList(gleamSemanticTokenTypes)

tokenModifiersMap == MapOfList(gleamSemanticTokenModifiers)

\* Map.prototype.has
Has(map, key) == key \in DOMAIN map

\* Map.prototype.size
Size(map) == Cardinality(DOMAIN map)

(***************************************************************************)
(* _splitLine (lines 177-213).                                             *)
(***************************************************************************)
maxLength == 65535

\* the splitter without its loop over the rows in between
NoMiddleTokens(token, start, i, offset) == <<>>

\* the for loop of lines 193-202: i runs from 1 while i < offset
RECURSIVE MiddleTokens(_, _, _, _)
MiddleTokens(token, start, i, offset) ==
    IF i < offset
    THEN <<[line |-> start.row + i, startCharacter |-> 0, length |-> maxLength,
            type |-> token.type, modifiers |-> token.modifiers]>>
         \o MiddleTokens(token, start, i + 1, offset)
    ELSE <<>>

_splitLine(token, start, end) ==
    LET offset == end.row - start.row
    IN  <<[line |-> start.row, startCharacter |-> start.column,
           length |-> maxLength, type |-> token.type,
           modifiers |-> token.modifiers]>>
        \o MiddleTokens(token, start, 1, offset)
        \o <<[line |-> end.row, startCharacter |-> 0, length |-> end.column,
              type |-> token.type, modifiers |-> token.modifiers]>>

(***************************************************************************)
(* _mapTSMatchesToSemanticTokens (lines 143-174).                          *)
(***************************************************************************)
\* line 166 never routing a token to _splitLine
NeverSplit(start, end) == FALSE

\* a slip in the comparison of line 166: >= for >
NeedsSplitOrSameRow(start, end) == start.row >= end.row

\* the test of line 166 that routes a token to _splitLine
NeedsSplit(start, end) == start.row > end.row

\* the callback without the legend test of lines 152-154
CaptureCallbackUnchecked(capture) ==
    LET start == capture.node.startPosition
        end   == capture.node.endPosition
        token == [line |-> start.row, startCharacter |-> start.column,
                  length |-> end.column - start.column, type |-> capture.name,
                  modifiers |-> <<>>]
    IN  IF NeedsSplit(start, end)
        THEN [out |-> _splitLine(token, start, end),
              split |-> <<[token |-> token, start |-> start, end |-> end]>>]
        ELSE [out |-> <<token>>, split |-> <<>>]

\* The flatMap callback of lines 146-171 for one capture.  out is the array
\* the callback returns; split lists the _splitLine calls it made (their
\* arguments), so that a run records whether the splitter was entered.
CaptureCallback(capture) ==
    LET type  == capture.name
        start == capture.node.startPosition
        end   == capture.node.endPosition
        token == [line |-> start.row, startCharacter |-> start.column,
                  length |-> end.column - start.column, type |-> type,
                  modifiers |-> <<>>]
    IN  IF ~Has(tokenTypesMap, type)
        THEN [out |-> <<>>, split |-> <<>>]
        ELSE IF NeedsSplit(start, end)
             THEN [out |-> _splitLine(token, start, end),
                   split |-> <<[token |-> token, start |-> start, end |-> end]>>]
             ELSE [out |-> <<token>>, split |-> <<>>]

\* matches.flatMap((match) => match.captures), line 145
RECURSIVE FlatCaptures(_)
FlatCaptures(ms) ==
    IF ms = <<>> THEN <<>>
    ELSE Head(ms).captures \o FlatCaptures(Tail(ms))

RECURSIVE FlatTokens(_)
FlatTokens(caps) ==
    IF caps = <<>> THEN <<>>
    ELSE CaptureCallback(Head(caps)).out \o FlatTokens(Tail(caps))

_mapTSMatchesToSemanticTokens(ms) == FlatTokens(FlatCaptures(ms))

(***************************************************************************)
(* The encoders (lines 119-141).                                           *)
(***************************************************************************)
\* the encoder without the branch of line 122
EncodeTokenTypeNoSentinel(tokenType) ==
    IF Has(tokenTypesMap, tokenType) THEN tokenTypesMap[tokenType] ELSE 0

\* the encoder counting legend entries from one
EncodeTokenTypeFromOne(tokenType) ==
    IF Has(tokenTypesMap, tokenType) THEN tokenTypesMap[tokenType] + 1
    ELSE IF tokenType = "notInLegend" THEN Size(tokenTypesMap) + 2
    ELSE 0

_encodeTokenType(tokenType) ==
    IF Has(tokenTypesMap, tokenType) THEN tokenTypesMap[tokenType]
    ELSE IF tokenType = "notInLegend" THEN Size(tokenTypesMap) + 2
    ELSE 0

\* 1 << n
RECURSIVE Shl1(_)
Shl1(n) == IF n = 0 THEN 1 ELSE 2 * Shl1(n - 1)

\* a | b for b a single bit 1 << n
RECURSIVE Div2(_, _)
Div2(a, n) == IF n = 0 THEN a ELSE Div2(a \div 2, n - 1)

BitOr(a, n) == IF Div2(a, n) % 2 = 1 THEN a ELSE a + Shl1(n)

RECURSIVE EncodeModifiersFrom(_, _, _)
EncodeModifiersFrom(strTokenModifiers, i, result) ==
    IF i > Len(strTokenModifiers) THEN result
    ELSE LET tokenModifier == strTokenModifiers[i]
         IN  EncodeModifiersFrom(strTokenModifiers, i + 1,
                IF Has(tokenModifiersMap, tokenModifier)
                THEN BitOr(result, tokenModifiersMap[tokenModifier])
                ELSE IF tokenModifier = "notInLegend"
                     THEN BitOr(result, Size(tokenModifiersMap) + 2)
                     ELSE result)

_encodeTokenModifiers(strTokenModifiers) ==
    EncodeModifiersFrom(strTokenModifiers, 1, 0)

\* the builder.push of lines 105-113 for one token
PushTuple(token) ==
    <<token.line, token.startCharacter, token.length,
      _encodeTokenType(token.type), _encodeTokenModifiers(token.modifiers)>>

\* tokens.forEach(... builder.push ...), lines 105-113
PushAll(toks) == [i \in DOMAIN toks |-> PushTuple(toks[i])]

(***************************************************************************)
(* Documents of the host editor.                                           *)
(***************************************************************************)
\* document.uri.toString() of the open documents: one the user edits, one
\* the user only reads (its text never changes, so no change event names it)
Edited == "file:///a.gleam"

ReadOnly == "file:///b.gleam"

Docs == {Edited, ReadOnly}

\* A document's text is a sequence of characters.  The toy grammar has one
\* token, "+", and the line break.
Chars == {"+", "\n"}

Texts == SeqsUpTo(Chars, MaxLen)

Min(a, b) == IF a < b THEN a ELSE b

Max(a, b) == IF a > b THEN a ELSE b

\* vscode.TextDocument.positionAt(offset) on `text`: the offset is clamped
\* to the text, line counts the line breaks before it, character is the
\* distance from the last of them.
PositionAt(text, offset) ==
    LET off    == Max(0, Min(offset, Len(text)))
        breaks == {i \in 1..off : text[i] = "\n"}
        last   == IF breaks = {} THEN 0
                  ELSE CHOOSE i \in breaks : \A j \in breaks : j <= i
    IN  [line |-> Cardinality(breaks), character |-> off - last]

\* One TextDocumentContentChangeEvent applied to a text.
ApplyChange(text, change) ==
    SubSeq(text, 1, change.rangeOffset) \o change.text
    \o SubSeq(text, change.rangeOffset + change.rangeLength + 1, Len(text))

\* The text after the first k changes of an event.
RECURSIVE ApplyChanges(_, _, _)
ApplyChanges(text, changes, k) ==
    IF k = 0 THEN text
    ELSE ApplyChange(ApplyChanges(text, changes, k - 1), changes[k])

\* The changes of at most one character by at most one character, none of
\* them empty, whose range lies in text[1..hi].
ChangesIn(text, hi) ==
    {c \in [rangeOffset : 0..hi, rangeLength : 0..1, text : SeqsUpTo(Chars, 1)] :
        /\ c.rangeOffset + c.rangeLength <= hi
        /\ c.rangeLength + Len(c.text) > 0}

\* Sequences of at most k such changes whose ranges are given in the
\* coordinates of `text`, do not overlap and come in descending order, as
\* the host reports the changes of one event (so that they apply to the
\* text one after the other).
RECURSIVE ChangesBelow(_, _, _)
ChangesBelow(text, hi, k) ==
    IF k = 0 THEN {<<>>}
    ELSE {<<>>} \cup
         UNION {{<<c>> \o rest :
                    rest \in ChangesBelow(text, c.rangeOffset, k - 1)} :
                c \in ChangesIn(text, hi)}

\* The change events the host can report on `text`: one to MaxEdits
\* changes that leave a text of at most MaxLen characters.
EventsOn(text) ==
    {cs \in ChangesBelow(text, Len(text), MaxEdits) :
        /\ cs # <<>>
        /\ Len(ApplyChanges(text, cs, Len(cs))) <= MaxLen}

\* the same, tabulated once for every text
ChangeEventTable == UNION {{<<t, cs>> : cs \in EventsOn(t)} : t \in Texts}

ChangeEventsOn(text) == {p[2] : p \in {q \in ChangeEventTable : q[1] = text}}

(***************************************************************************)
(* The parser and the query (web-tree-sitter), lines 92, 96, 101, 232.     *)
(* A tree holds its leaves (nodes, one per character).  tree.edit moves    *)
(* and marks the nodes of the tree in place: the nodes of the replaced     *)
(* range give way to nodes marked changed, the nodes behind it move.  A    *)
(* parse with an old tree keeps every node of the old tree that is not     *)
(* marked, at the offset it now has, without reading the text there again; *)
(* everything else is read from the text.                                  *)
(***************************************************************************)
\* cachedTrees.get(docURI) of a document without entry (undefined)
NoTree == [defined |-> FALSE, nodes |-> <<>>]

\* the leaves a parse reads from `text`
Leaves(text) == [i \in DOMAIN text |-> [ch |-> text[i], changed |-> FALSE]]

\* the characters under the nodes of a tree
TextOf(tree) == [i \in DOMAIN tree.nodes |-> tree.nodes[i].ch]

\* the nodes after an edit of [startIndex, oldEndIndex) to
\* [startIndex, newEndIndex)
EditNodes(ns, startIndex, oldEndIndex, newEndIndex) ==
    LET s == Min(startIndex, Len(ns))
        o == Min(Max(oldEndIndex, s), Len(ns))
    IN  SubSeq(ns, 1, s)
        \o [i \in 1..(newEndIndex - startIndex) |-> [ch |-> "?", changed |-> TRUE]]
        \o SubSeq(ns, o + 1, Len(ns))

\* parser.parse(text) and parser.parse(text, oldTree)
Parse(text, oldTree) ==
    IF ~oldTree.defined
    THEN [defined |-> TRUE, nodes |-> Leaves(text)]
    ELSE [defined |-> TRUE,
          nodes |-> [i \in DOMAIN text |->
                        IF i <= Len(oldTree.nodes) /\ ~oldTree.nodes[i].changed
                        THEN oldTree.nodes[i]
                        ELSE [ch |-> text[i], changed |-> FALSE]]]

\* tree.edit(descriptor)
Edit(tree, descriptor) ==
    [tree EXCEPT !.nodes = EditNodes(@, descriptor.startIndex,
                                     descriptor.oldEndIndex,
                                     descriptor.newEndIndex)]

\* highlightQuery.matches(tree.rootNode): one match with one "operator"
\* capture per "+" leaf, in document order
RECURSIVE MatchesFrom(_, _)
MatchesFrom(ns, i) ==
    IF i > Len(ns) THEN <<>>
    ELSE (IF ns[i] = "+"
          THEN LET p == PositionAt(ns, i - 1)
               IN  <<[captures |-> <<[name |-> "operator",
                        node |-> [startPosition |-> [row |-> p.line,
                                                     column |-> p.character],
                                  endPosition |-> [row |-> p.line,
                                                   column |-> p.character + 1]]]>>]>>
          ELSE <<>>)
         \o MatchesFrom(ns, i + 1)

Matches(tree) == MatchesFrom(TextOf(tree), 1)

(***************************************************************************)
(* State.                                                                  *)
(***************************************************************************)
VARIABLES
    \* ---- the provider (Spec) ----
    initPc,             \* where initializeParser stands (lines 58-75)
    parser,             \* this.parser: "undefined", "noLanguage", "ready"
    highlightQuery,     \* this.highlightQuery is defined
    providerReadyLock,  \* the promise the field holds: "init" or "update"
    cachedTrees,        \* this.cachedTrees
    documents,          \* the host's text of each document
    suspended,          \* token requests awaiting the initialization promise
    lastRequest,        \* the token request that completed last, if no
                        \* change event came after it
    lastChange,         \* the change event handled last, if no request
                        \* completed after it
    edited,             \* per document, the number of change events
                        \* applied to its cache entry since the parse
    \* ---- one run of the token pipeline (SpecNorm) ----
    matches,            \* the query's result
    normPc,             \* "map", "push", "done"
    mapped,             \* callback results of the captures done so far
    splitCalls,         \* the _splitLine calls made so far
    tokens,             \* result of _mapTSMatchesToSemanticTokens
    builder             \* tuples pushed to the SemanticTokensBuilder

providerVars == <<initPc, parser, highlightQuery, providerReadyLock,
                  cachedTrees, documents, suspended, lastRequest, lastChange,
                  edited>>

normVars == <<matches, normPc, mapped, splitCalls, tokens, builder>>

vars == <<providerVars, normVars>>

\* lastRequest: the request's document and text snapshot, how it ended,
\* the cache entry it found (hint), the number of change events applied
\* to that entry (reported), the tree it queried, the tuples it returned,
\* where initializeParser stood when it resumed, and whether the request
\* completed before it was for the same document and text (again)
NoRequest == [document |-> "", docText |-> <<>>, outcome |-> "none",
              hint |-> NoTree, reported |-> 0, tree |-> NoTree,
              tokens |-> <<>>, initPc |-> "", again |-> FALSE]

\* lastChange: the event's document, its text before the event, the
\* changes reported, the descriptors handed to tree.edit, whether the
\* document had a cache entry and what the entry was
NoChange == [document |-> "", before |-> <<>>, changes |-> <<>>,
             applied |-> <<>>, hadTree |-> FALSE, treeBefore |-> NoTree]

\* the state the constructor leaves (lines 46-56): initializeParser has run
\* up to its first await
ProviderInit ==
    /\ initPc = "Parser.init"
    /\ parser = "undefined"
    /\ highlightQuery = FALSE
    /\ providerReadyLock = "init"
    /\ cachedTrees = [d \in Docs |-> NoTree]
    /\ suspended = <<>>
    /\ lastRequest = NoRequest
    /\ lastChange = NoChange
    /\ edited = [d \in Docs |-> 0]

NormIdle ==
    /\ matches = <<>>
    /\ normPc = "done"
    /\ mapped = <<>>
    /\ splitCalls = <<>>
    /\ tokens = <<>>
    /\ builder = <<>>

(***************************************************************************)
(* initializeParser (lines 58-75).                                         *)
(***************************************************************************)
\* await Parser.init() resolves; this.parser = new Parser()
ParserInitResolves ==
    /\ initPc = "Parser.init"
    /\ initPc' = "Language.load"
    /\ parser' = "noLanguage"
    /\ UNCHANGED <<highlightQuery, providerReadyLock, cachedTrees, documents,
                   suspended, lastRequest, lastChange, edited, normVars>>

\* await Parser.init() rejects
ParserInitRejects ==
    /\ initPc = "Parser.init"
    /\ initPc' = "failed"
    /\ UNCHANGED <<parser, highlightQuery, providerReadyLock, cachedTrees,
                   documents, suspended, lastRequest, lastChange, edited,
                   normVars>>

\* await Parser.Language.load() resolves; setLanguage; lang.query compiles
LanguageLoadResolves ==
    /\ initPc = "Language.load"
    /\ initPc' = "done"
    /\ parser' = "ready"
    /\ highlightQuery' = TRUE
    /\ UNCHANGED <<providerReadyLock, cachedTrees, documents, suspended,
                   lastRequest, lastChange, edited, normVars>>

\* await Parser.Language.load() rejects
LanguageLoadRejects ==
    /\ initPc = "Language.load"
    /\ initPc' = "failed"
    /\ UNCHANGED <<parser, highlightQuery, providerReadyLock, cachedTrees,
                   documents, suspended, lastRequest, lastChange, edited,
                   normVars>>

\* the language loads and is set, lang.query(highlightsQueryRaw) throws
QueryCompileThrows ==
    /\ initPc = "Language.load"
    /\ initPc' = "failed"
    /\ parser' = "ready"
    /\ UNCHANGED <<highlightQuery, providerReadyLock, cachedTrees, documents,
                   suspended, lastRequest, lastChange, edited, normVars>>

(***************************************************************************)
(* provideDocumentSemanticTokens (lines 79-116).                           *)
(***************************************************************************)
InitSettled == initPc \in {"done", "failed"}

\* the promise providerReadyLock holds is settled: the promise of an
\* updateCachedTree call is (its async body has no await), the promise of
\* initializeParser once initialization has ended
LockSettled == providerReadyLock = "update" \/ InitSettled

\* the host delivering calls at any point, also ahead of continuations
\* that are ready to run
AnyTurn == TRUE

\* Continuations of a settled promise run as microtasks, before the host
\* delivers its next call.
HostTurn == ~(InitSettled /\ suspended # <<>>)

\* line 101 querying the tree the cache held before the parse
QueriedTreeStale(old, parsed) == IF old.defined THEN old ELSE parsed

\* the tree handed to highlightQuery.matches (line 101): `tree` was
\* reassigned by the parse of line 92 or 96
QueriedTree(old, parsed) == parsed

\* a cache that holds one tree: storing a tree drops the other entries
StoreTreeEvicting(cache, d, tree) ==
    [x \in DOMAIN cache |-> IF x = d THEN tree ELSE NoTree]

\* the cache after lines 93 / 97
StoreTree(cache, d, tree) == [cache EXCEPT ![d] = tree]

\* lines 88-98 without the else branch: every request parses from scratch
GetOrUpdateFromScratch(cache, d, docText) == Parse(docText, NoTree)

\* lines 88-98: the tree parsed for the request
GetOrUpdate(cache, d, docText) ==
    LET tree == cache[d]
    IN  IF ~tree.defined THEN Parse(docText, NoTree) ELSE Parse(docText, tree)

\* lines 101-115
BuildTokens(tree) == PushAll(_mapTSMatchesToSemanticTokens(Matches(tree)))

\* Lines 86-115 of a request for d that took the snapshot docText, from the
\* point its await of the lock returns (rejected: the awaited promise was
\* rejected and the await throws).
Continue(d, docText, rejected) ==
    LET old    == cachedTrees[d]
        parsed == GetOrUpdate(cachedTrees, d, docText)
        done(outcome, tree, toks) ==
            lastRequest' =
                [document |-> d, docText |-> docText, outcome |-> outcome,
                 hint |-> old, reported |-> edited[d], tree |-> tree,
                 tokens |-> toks,
                 initPc |-> initPc,
                 again |-> /\ outcome = "tokens"
                           /\ lastRequest.outcome = "tokens"
                           /\ lastRequest.document = d
                           /\ lastRequest.docText = docText]
    IN  /\ lastChange' = NoChange
        /\ IF rejected
           THEN /\ done("initFailure", NoTree, <<>>)
                /\ UNCHANGED <<cachedTrees, edited>>
           ELSE IF parser = "undefined"
           THEN \* this.parser!.parse(...) on undefined
                /\ done("TypeError at parse", NoTree, <<>>)
                /\ UNCHANGED <<cachedTrees, edited>>
           ELSE IF parser = "noLanguage"
           THEN \* parse() without a language throws
                /\ done("parse failed", NoTree, <<>>)
                /\ UNCHANGED <<cachedTrees, edited>>
           ELSE /\ cachedTrees' = StoreTree(cachedTrees, d, parsed)
                /\ edited' = [edited EXCEPT ![d] = 0]
                /\ IF ~highlightQuery
                   THEN \* this.highlightQuery!.matches(...) on undefined
                        done("TypeError at matches", NoTree, <<>>)
                   ELSE done("tokens", QueriedTree(old, parsed),
                             BuildTokens(QueriedTree(old, parsed)))

\* A call that finds the lock settled resumes in the same turn.
RequestRuns(d) ==
    /\ HostTurn
    /\ LockSettled
    /\ Continue(d, documents[d], providerReadyLock = "init" /\ initPc = "failed")
    /\ UNCHANGED <<initPc, parser, highlightQuery, providerReadyLock,
                   documents, suspended, normVars>>

\* A call that finds the initialization promise pending suspends at line 86
\* with its snapshot of the text.
RequestSuspends(d) ==
    /\ HostTurn
    /\ ~LockSettled
    /\ Len(suspended) < MaxSuspended
    /\ suspended' = Append(suspended, [document |-> d, docText |-> documents[d]])
    /\ UNCHANGED <<initPc, parser, highlightQuery, providerReadyLock,
                   cachedTrees, documents, lastRequest, lastChange, edited,
                   normVars>>

\* A suspended request resumes once initialization has settled.
RequestResumes ==
    /\ InitSettled
    /\ suspended # <<>>
    /\ Continue(Head(suspended).document, Head(suspended).docText,
                initPc = "failed")
    /\ suspended' = Tail(suspended)
    /\ UNCHANGED <<initPc, parser, highlightQuery, providerReadyLock,
                   documents, normVars>>

(***************************************************************************)
(* updateCachedTree (lines 215-243).                                       *)
(***************************************************************************)
\* lines 224-239: the edit built for one change; doc is the text of
\* e.document, which the host has already changed
Descriptor(change, doc) ==
    LET start  == change.rangeOffset
        oldEnd == change.rangeOffset + change.rangeLength
        newEnd == change.rangeOffset + Len(change.text)
        startPosition  == PositionAt(doc, start)
        oldEndPosition == PositionAt(doc, oldEnd)
        newEndPosition == PositionAt(doc, newEnd)
    IN  [startIndex |-> start, oldEndIndex |-> oldEnd, newEndIndex |-> newEnd,
         startPosition  |-> [row |-> startPosition.line,
                             column |-> startPosition.character],
         oldEndPosition |-> [row |-> oldEndPosition.line,
                             column |-> oldEndPosition.character],
         newEndPosition |-> [row |-> newEndPosition.line,
                             column |-> newEndPosition.character]]

\* the changes of an event visited last to first
DescriptorsReversed(changes, doc) ==
    [k \in DOMAIN changes |-> Descriptor(changes[Len(changes) + 1 - k], doc)]

\* e.contentChanges.forEach(...): the descriptors in the order of the calls
\* of tree.edit
Descriptors(changes, doc) ==
    [k \in DOMAIN changes |-> Descriptor(changes[k], doc)]

RECURSIVE EditAll(_, _, _)
EditAll(tree, descs, k) ==
    IF k = 0 THEN tree ELSE Edit(EditAll(tree, descs, k - 1), descs[k])

\* the handler parsing the document when the cache has no tree for it
UpdatedTreeOrParse(tree, changes, doc) ==
    IF tree.defined
    THEN EditAll(tree, Descriptors(changes, doc), Len(changes))
    ELSE Parse(doc, NoTree)

\* lines 218-241: the cached tree of the document after the handler
UpdatedTree(tree, changes, doc) ==
    IF tree.defined
    THEN EditAll(tree, Descriptors(changes, doc), Len(changes))
    ELSE tree

\* The host changes document d by the event `changes` and calls
\* updateCachedTree, whose async body runs to its end within the call.
updateCachedTree(d, changes) ==
    LET before == documents[d]
        after  == ApplyChanges(before, changes, Len(changes))
        tree   == cachedTrees[d]
    IN  /\ HostTurn
        /\ tree.defined => edited[d] < MaxEdits
        /\ documents' = [documents EXCEPT ![d] = after]
        /\ providerReadyLock' = "update"
        /\ cachedTrees' = [cachedTrees EXCEPT ![d] = UpdatedTree(tree, changes, after)]
        /\ edited' = [edited EXCEPT ![d] = IF tree.defined THEN @ + 1 ELSE @]
        /\ lastChange' = [document |-> d, before |-> before, changes |-> changes,
                          applied |-> IF tree.defined
                                      THEN Descriptors(changes, after)
                                      ELSE <<>>,
                          hadTree |-> tree.defined, treeBefore |-> tree]
        /\ lastRequest' = NoRequest
        /\ UNCHANGED <<initPc, parser, highlightQuery, suspended, normVars>>

(***************************************************************************)
(* Spec: the provider under the host's event loop.                         *)
(***************************************************************************)
Init ==
    /\ ProviderInit
    /\ \E text \in Texts :
          documents = [d \in Docs |-> IF d = Edited THEN text ELSE <<"+">>]
    /\ NormIdle

Next ==
    \/ ParserInitResolves
    \/ ParserInitRejects
    \/ LanguageLoadResolves
    \/ LanguageLoadRejects
    \/ QueryCompileThrows
    \/ \E d \in Docs : RequestRuns(d)
    \/ \E d \in Docs : RequestSuspends(d)
    \/ RequestResumes
    \/ \E cs \in ChangeEventsOn(documents[Edited]) : updateCachedTree(Edited, cs)

Spec == Init /\ [][Next]_vars

(***************************************************************************)
(* SpecNorm: lines 104-113 of one token request, on a bounded query result.*)
(***************************************************************************)
Points == [row : 0..MaxRow, column : 0..MaxCol]

\* names a query can give its captures: the legend's names and one the
\* legend lacks
CaptureNames == {"string", "operator", "unknown_future_node"}

Captures == [name : CaptureNames,
             node : [startPosition : Points, endPosition : Points]]

Capture(name, startRow, startColumn, endRow, endColumn) ==
    [name |-> name,
     node |-> [startPosition |-> [row |-> startRow, column |-> startColumn],
               endPosition   |-> [row |-> endRow, column |-> endColumn]]]

\* the captures of the scenarios of the specification, and one that bears
\* the name _encodeTokenType treats as its sentinel
ScenarioCaptures ==
    <<Capture("operator", 0, 1, 0, 2),
      Capture("string", 2, 3, 4, 5),
      Capture("unknown_future_node", 0, 0, 0, 3),
      Capture("notInLegend", 1, 0, 1, 2)>>

\* A query result: one match holding up to MaxCaptures captures drawn from
\* Captures, followed or not by a match holding the scenario captures.
IsQueryResult(ms) ==
    \E free \in SeqsUpTo(Captures, MaxCaptures) :
    \E scenario \in {<<>>, <<[captures |-> ScenarioCaptures]>>} :
        ms = <<[captures |-> free]>> \o scenario

RECURSIVE Concat(_)
Concat(arrays) ==
    IF arrays = <<>> THEN <<>> ELSE Head(arrays) \o Concat(Tail(arrays))

InitNorm ==
    /\ ProviderInit
    /\ documents = [d \in Docs |-> <<>>]
    /\ IsQueryResult(matches)
    /\ normPc = "map"
    /\ mapped = <<>>
    /\ splitCalls = <<>>
    /\ tokens = <<>>
    /\ builder = <<>>

\* let tokens = this._mapTSMatchesToSemanticTokens(highlightMatches): the
\* callback's result for every capture (mapped), the _splitLine calls made
\* on the way, and the flattened array
MapMatches ==
    /\ normPc = "map"
    /\ LET caps    == FlatCaptures(matches)
           results == [i \in DOMAIN caps |-> CaptureCallback(caps[i])]
       IN  /\ mapped' = [i \in DOMAIN caps |-> results[i].out]
           /\ splitCalls' = Concat([i \in DOMAIN caps |-> results[i].split])
           /\ tokens' = _mapTSMatchesToSemanticTokens(matches)
    /\ normPc' = "push"
    /\ UNCHANGED <<matches, builder, providerVars>>

\* tokens.forEach((token) => builder.push(...))
PushTokens ==
    /\ normPc = "push"
    /\ builder' = PushAll(tokens)
    /\ normPc' = "done"
    /\ UNCHANGED <<matches, mapped, splitCalls, tokens, providerVars>>

NextNorm == MapMatches \/ PushTokens

SpecNorm == InitNorm /\ [][NextNorm]_vars

(***************************************************************************)
(* Claims on the token pipeline, checked under SpecNorm.                   *)
(***************************************************************************)
\* the captures of the query result, in the order flatMap visits them
(***************************************************************************)
(* SpecCalls: _splitLine and _encodeTokenType called on their own, with    *)
(* the name and the two points of every capture of a bounded query result  *)
(* as arguments.                                                           *)
(***************************************************************************)
\* the token of the call of _splitLine for a capture: any type, and a
\* modifier list that is not empty
CallToken(c) ==
    [line |-> c.node.startPosition.row,
     startCharacter |-> c.node.startPosition.column,
     length |-> c.node.endPosition.column - c.node.startPosition.column,
     type |-> c.name, modifiers |-> <<c.name>>]

InitCalls ==
    /\ ProviderInit
    /\ documents = [d \in Docs |-> <<>>]
    /\ IsQueryResult(matches)
    /\ normPc = "split"
    /\ mapped = <<>>
    /\ splitCalls = <<>>
    /\ tokens = <<>>
    /\ builder = <<>>

\* _splitLine(token, start, end) for every capture; mapped holds the
\* arrays returned
SplitLineCalls ==
    /\ normPc = "split"
    /\ LET caps == FlatCaptures(matches)
       IN  /\ mapped' = [i \in DOMAIN caps |->
                            _splitLine(CallToken(caps[i]),
                                       caps[i].node.startPosition,
                                       caps[i].node.endPosition)]
           /\ splitCalls' = [i \in DOMAIN caps |->
                                [token |-> CallToken(caps[i]),
                                 start |-> caps[i].node.startPosition,
                                 end   |-> caps[i].node.endPosition]]
    /\ normPc' = "encode"
    /\ UNCHANGED <<matches, tokens, builder, providerVars>>

\* _encodeTokenType(name) for every capture's name; builder holds the
\* numbers returned
EncodeTokenTypeCalls ==
    /\ normPc = "encode"
    /\ LET caps == FlatCaptures(matches)
       IN  builder' = [i \in DOMAIN caps |-> _encodeTokenType(caps[i].name)]
    /\ normPc' = "done"
    /\ UNCHANGED <<matches, mapped, splitCalls, tokens, providerVars>>

NextCalls == SplitLineCalls \/ EncodeTokenTypeCalls

SpecCalls == InitCalls /\ [][NextCalls]_vars

Caps == FlatCaptures(matches)

Recognized(c) == Has(tokenTypesMap, c.name)

StartRow(c) == c.node.startPosition.row

EndRow(c) == c.node.endPosition.row

StartColumn(c) == c.node.startPosition.column

EndColumn(c) == c.node.endPosition.column

Mapped == normPc # "map"

\* C1: every recognized capture whose start row is less than its end row
\* is emitted as endRow - startRow + 1 tokens, one on each row from
\* startRow to endRow.
C1_MultiLineCaptureIsSplit ==
    Mapped =>
        \A i \in DOMAIN Caps :
            (Recognized(Caps[i]) /\ StartRow(Caps[i]) < EndRow(Caps[i])) =>
                /\ Len(mapped[i]) = EndRow(Caps[i]) - StartRow(Caps[i]) + 1
                /\ \A k \in DOMAIN mapped[i] :
                      mapped[i][k].line = StartRow(Caps[i]) + k - 1

\* the cases C4 names: a well-formed span on one row, a span over several
\* rows with any columns, a span whose rows are reversed
C4Case(c) ==
    \/ StartRow(c) = EndRow(c) /\ StartColumn(c) <= EndColumn(c)
    \/ StartRow(c) < EndRow(c)
    \/ StartRow(c) > EndRow(c)

\* C4: every token the normalizer produces for such captures has
\* line >= 0, startCharacter >= 0 and length >= 0.
C4_TokenFieldsNonNegative ==
    Mapped =>
        \A i \in DOMAIN Caps :
            C4Case(Caps[i]) =>
                \A k \in DOMAIN mapped[i] :
                    /\ mapped[i][k].line >= 0
                    /\ mapped[i][k].startCharacter >= 0
                    /\ mapped[i][k].length >= 0

\* C5: a recognized capture that starts and ends on the same row yields
\* exactly one token, (startRow, startColumn, endColumn - startColumn) of
\* the capture's type and without modifiers, and _splitLine is not called
\* for it.
C5_SingleLineCaptureOneToken ==
    Mapped =>
        /\ \A i \in DOMAIN Caps :
              (Recognized(Caps[i]) /\ StartRow(Caps[i]) = EndRow(Caps[i])) =>
                  mapped[i] = <<[line |-> StartRow(Caps[i]),
                                 startCharacter |-> StartColumn(Caps[i]),
                                 length |-> EndColumn(Caps[i]) - StartColumn(Caps[i]),
                                 type |-> Caps[i].name,
                                 modifiers |-> <<>>]>>
        /\ \A j \in DOMAIN splitCalls :
              splitCalls[j].start.row # splitCalls[j].end.row

C5_Witness ==
    /\ normPc = "done"
    /\ \E i \in DOMAIN Caps :
          /\ Recognized(Caps[i])
          /\ StartRow(Caps[i]) = EndRow(Caps[i])
          /\ StartColumn(Caps[i]) < EndColumn(Caps[i])
          /\ Len(mapped[i]) = 1

\* the tokens the recognized captures yield when each is mapped on its own
RECURSIVE TokensOfRecognized(_)
TokensOfRecognized(caps) ==
    IF caps = <<>> THEN <<>>
    ELSE (IF Recognized(Head(caps))
          THEN _mapTSMatchesToSemanticTokens(<<[captures |-> <<Head(caps)>>]>>)
          ELSE <<>>)
         \o TokensOfRecognized(Tail(caps))

\* C6: a capture whose name is not in the legend yields no token, no
\* _splitLine call and no pushed tuple; the tokens of the other captures
\* are what they are without it; every token's type is a legend name.
C6_UnknownCategoryDropped ==
    /\ Mapped =>
          /\ \A i \in DOMAIN Caps : ~Recognized(Caps[i]) => mapped[i] = <<>>
          /\ \A j \in DOMAIN splitCalls :
                Has(tokenTypesMap, splitCalls[j].token.type)
          /\ tokens = TokensOfRecognized(Caps)
          /\ \A k \in DOMAIN tokens : Has(tokenTypesMap, tokens[k].type)
    /\ normPc = "done" =>
          /\ Len(builder) = Len(TokensOfRecognized(Caps))
          /\ \A k \in DOMAIN builder :
                \E n \in DOMAIN tokenTypesMap : builder[k][4] = tokenTypesMap[n]

C6_Witness ==
    /\ normPc = "done"
    /\ \E i, j \in DOMAIN Caps :
          /\ ~Recognized(Caps[i])
          /\ Recognized(Caps[j])
          /\ mapped[i] = <<>>
          /\ mapped[j] # <<>>
    /\ builder # <<>>

(***************************************************************************)
(* Claims on the provider, checked under Spec.                             *)
(***************************************************************************)
Completed == lastRequest.outcome = "tokens"

\* C2: whenever a token request reparses with the cached tree as hint, the
\* matches of the tree it gets equal those of a from-scratch parse of the
\* text it parses.
C2_IncrementalEqualsFullParse ==
    (Completed /\ lastRequest.hint.defined) =>
        Matches(lastRequest.tree) = Matches(Parse(lastRequest.docText, NoTree))

\* C3: no request reaches its parse (line 92 or 96) or its query (line
\* 101) unless initializeParser has completed successfully.
C3_NoParseBeforeInitialized ==
    lastRequest.outcome \in {"TypeError at parse", "parse failed",
                             "TypeError at matches", "tokens"}
        => lastRequest.initPc = "done"

\* C7: a token request that completes right after a completed request for
\* the same document and the same text, with no change event in between,
\* returns the same tuples.
C7_RepeatedRequestSameTokens ==
    [][(/\ lastRequest.outcome = "tokens"
        /\ lastRequest'.outcome = "tokens"
        /\ lastRequest'.document = lastRequest.document
        /\ lastRequest'.docText = lastRequest.docText)
       => lastRequest'.tokens = lastRequest.tokens]_vars

C7_Witness ==
    /\ lastRequest.again
    /\ lastRequest.hint.defined
    /\ lastRequest.tokens # <<>>

\* C8: a token request for d with text t that completes leaves as d's
\* cache entry the tree of a from-scratch parse of t if d had no entry,
\* and otherwise of a parse of t with d's entry as hint; that tree is the
\* one queried; the entries of the other documents are unchanged.
C8_GetOrUpdate ==
    [][lastRequest'.outcome = "tokens" =>
        LET d == lastRequest'.document
            t == lastRequest'.docText
        IN  /\ cachedTrees'[d] = IF cachedTrees[d].defined
                                  THEN Parse(t, cachedTrees[d])
                                  ELSE Parse(t, NoTree)
            /\ lastRequest'.tree = cachedTrees'[d]
            /\ \A e \in Docs \ {d} : cachedTrees'[e] = cachedTrees[e]]_vars

C8_Witness ==
    /\ Completed
    /\ lastRequest.hint.defined
    /\ lastRequest.reported >= 1
    /\ cachedTrees[lastRequest.document] = lastRequest.tree
    /\ \E e \in Docs \ {lastRequest.document} : cachedTrees[e].defined

\* the nodes of a tree after the first k changes of an event were applied
\* one after the other, each once
RECURSIVE NodesAfter(_, _, _)
NodesAfter(ns, changes, k) ==
    IF k = 0 THEN ns
    ELSE EditNodes(NodesAfter(ns, changes, k - 1),
                   changes[k].rangeOffset,
                   changes[k].rangeOffset + changes[k].rangeLength,
                   changes[k].rangeOffset + Len(changes[k].text))

\* C9: a change event for a document with a cache entry leaves the entry
\* edited by every change of the event, each once and in the order
\* reported, on top of the edits of the events before it; a token request
\* reparses the entry as the events left it.
C9_EditsInOrder ==
    /\ lastChange.hadTree =>
          /\ cachedTrees[lastChange.document].nodes
             = NodesAfter(lastChange.treeBefore.nodes, lastChange.changes,
                          Len(lastChange.changes))
          /\ edited[lastChange.document] >= 1
    /\ \A d \in Docs :
          (cachedTrees[d].defined /\ edited[d] = 0) =>
              \A i \in DOMAIN cachedTrees[d].nodes : ~cachedTrees[d].nodes[i].changed
    /\ (Completed /\ lastRequest.reported >= 1) => lastRequest.hint.defined

\* a change event of two changes edited a cache entry that carried the
\* edits of an event before it, and the order of the two changes shows in
\* the entry
C9_Witness ==
    /\ lastChange.hadTree
    /\ Len(lastChange.changes) = 2
    /\ edited[lastChange.document] = 2
    /\ \E i \in DOMAIN lastChange.treeBefore.nodes :
          lastChange.treeBefore.nodes[i].changed
    /\ cachedTrees[lastChange.document].nodes
       # NodesAfter(lastChange.treeBefore.nodes,
                    <<lastChange.changes[2], lastChange.changes[1]>>, 2)

\* the edit descriptor C10 describes for the k-th change of an event on
\* the text `before`
ClaimedDescriptor(before, changes, k) ==
    LET pre      == ApplyChanges(before, changes, k - 1)
        post     == ApplyChanges(before, changes, k)
        c        == changes[k]
        start    == PositionAt(pre, c.rangeOffset)
        oldEnd   == PositionAt(pre, c.rangeOffset + c.rangeLength)
        newEnd   == PositionAt(post, c.rangeOffset + Len(c.text))
    IN  [startIndex |-> c.rangeOffset,
         oldEndIndex |-> c.rangeOffset + c.rangeLength,
         newEndIndex |-> c.rangeOffset + Len(c.text),
         startPosition  |-> [row |-> start.line, column |-> start.character],
         oldEndPosition |-> [row |-> oldEnd.line, column |-> oldEnd.character],
         newEndPosition |-> [row |-> newEnd.line, column |-> newEnd.character]]

\* C10: the descriptor handed to tree.edit for each change has the three
\* offsets of the change, startPosition and oldEndPosition at the places
\* of those offsets in the text before the change, and newEndPosition at
\* the place of its offset in the text after it.
C10_EditTranslation ==
    lastChange.hadTree =>
        /\ Len(lastChange.applied) = Len(lastChange.changes)
        /\ \A k \in DOMAIN lastChange.applied :
              lastChange.applied[k]
              = ClaimedDescriptor(lastChange.before, lastChange.changes, k)

\* a step of updateCachedTree: a change event is the event handled last,
\* initializeParser and the suspended requests stand where they stood
ChangeStep ==
    /\ lastChange' # NoChange
    /\ lastRequest' = NoRequest
    /\ initPc' = initPc
    /\ suspended' = suspended

\* C11: a change event for a document without cache entry leaves the
\* cache as it was (no entry is created, no tree changes, nothing is
\* parsed); a change event for a document with an entry leaves every
\* document with or without entry as before, leaves the trees of the other
\* documents untouched, and leaves the document's tree as the edits of the
\* event make it, without a parse.
C11_ChangeEventFrame ==
    [][ChangeStep =>
        LET d == lastChange'.document
        IN  /\ \A x \in Docs : cachedTrees'[x].defined = cachedTrees[x].defined
            /\ \A x \in Docs \ {d} : cachedTrees'[x] = cachedTrees[x]
            /\ ~cachedTrees[d].defined =>
                  /\ cachedTrees' = cachedTrees
                  /\ edited' = edited
                  /\ ~lastChange'.hadTree
                  /\ lastChange'.applied = <<>>
            /\ cachedTrees[d].defined =>
                  /\ cachedTrees'[d]
                     = EditAll(cachedTrees[d], lastChange'.applied,
                               Len(lastChange'.applied))
                  /\ edited'[d] = edited[d] + 1]_vars

\* a change event came for a document without cache entry while another
\* document had one, and the document's text changed
C11_Witness ==
    /\ lastChange # NoChange
    /\ ~lastChange.hadTree
    /\ ~cachedTrees[lastChange.document].defined
    /\ documents[lastChange.document] # lastChange.before
    /\ \E x \in Docs \ {lastChange.document} : cachedTrees[x].defined

\* C12: once initialization has failed, every token request that has
\* ended has ended with the initialization failure, and no document has a
\* tree parsed and stored.
C12_InitFailurePropagates ==
    initPc = "failed" =>
        /\ lastRequest.outcome \in {"none", "initFailure"}
        /\ \A d \in Docs : ~cachedTrees[d].defined

\* a step in which a token request ended
RequestEnds ==
    /\ lastRequest'.outcome # "none"
    /\ lastChange' = NoChange
    /\ lastRequest' # lastRequest \/ cachedTrees' # cachedTrees \/ suspended' # suspended

\* C13: a request stays suspended only while the promise it awaits is
\* pending: once that promise has settled the next step is the request's
\* own.  A request's cache lookup, parse, store and query are one step on
\* the entry the lookup found: the tree stored is the parse over exactly
\* that entry, no edit of a change event comes in between; the edits of a
\* change event are one step on the entry its lookup found.
C13_TreeAccessExclusive ==
    [][/\ (suspended # <<>> /\ InitSettled) =>
              /\ suspended' = Tail(suspended)
              /\ lastRequest'.document = Head(suspended).document
              /\ lastRequest'.docText = Head(suspended).docText
       /\ RequestEnds =>
              LET d == lastRequest'.document
              IN  /\ lastRequest'.hint = cachedTrees[d]
                  /\ lastRequest'.reported = edited[d]
                  /\ lastRequest'.tree.defined =>
                        /\ cachedTrees'[d] = lastRequest'.tree
                        /\ lastRequest'.tree
                           = Parse(lastRequest'.docText, lastRequest'.hint)
       /\ ChangeStep =>
              /\ lastChange'.treeBefore = cachedTrees[lastChange'.document]
              /\ lastChange'.hadTree =>
                    cachedTrees'[lastChange'.document].nodes
                    = NodesAfter(cachedTrees[lastChange'.document].nodes,
                                 lastChange'.changes, Len(lastChange'.changes))
      ]_vars

\* a request that was suspended while a change event changed its document
\* has completed on the snapshot it took
C13_Witness ==
    /\ Completed
    /\ lastRequest.docText # documents[lastRequest.document]
    /\ cachedTrees[lastRequest.document] = lastRequest.tree

\* C16: the promise updateCachedTree installs is not settled before the
\* promise it replaces, and nothing that started after a request that is
\* still suspended, neither a change event nor another request, has gone
\* through before it.
C16_ContinuationChain ==
    /\ providerReadyLock = "update" => InitSettled
    /\ suspended # <<>> =>
          /\ lastChange = NoChange
          /\ lastRequest.outcome = "none"

\* C20: a document that has a cache entry has one after every step; a
\* document gets its entry only in a step in which a token request for
\* that document ends having parsed.
C20_CacheOnlyGrows ==
    [][\A d \in Docs :
          /\ cachedTrees[d].defined => cachedTrees'[d].defined
          /\ (~cachedTrees[d].defined /\ cachedTrees'[d].defined) =>
                /\ RequestEnds
                /\ lastRequest'.document = d
                /\ lastRequest'.outcome \in {"tokens", "TypeError at matches"}
                /\ ~lastRequest'.hint.defined
                /\ cachedTrees'[d] = Parse(lastRequest'.docText, NoTree)]_vars

\* both documents have their entry after requests for each and a change
\* event for one of them
C20_Witness ==
    /\ \A d \in Docs : cachedTrees[d].defined
    /\ lastChange.hadTree
    /\ edited[lastChange.document] >= 1

(***************************************************************************)
(* Further claims on the token pipeline, checked under SpecNorm.           *)
(***************************************************************************)
\* (line, startCharacter) of a is not behind that of b
NotBehind(a, b) ==
    \/ a.line < b.line
    \/ a.line = b.line /\ a.startCharacter <= b.startCharacter

\* a capture whose node ends where it starts or behind
WellFormed(c) ==
    \/ StartRow(c) < EndRow(c)
    \/ StartRow(c) = EndRow(c) /\ StartColumn(c) <= EndColumn(c)

\* C14: the tokens of a request are in non-decreasing order of
\* (line, startCharacter), whatever matches of well-formed captures the
\* query returned.
C14_TokensPositionSorted ==
    (Mapped /\ \A i \in DOMAIN Caps : WellFormed(Caps[i])) =>
        \A k \in 1..(Len(tokens) - 1) : NotBehind(tokens[k], tokens[k + 1])

\* the index of a name in the legend array, counted from 0
LegendIndex(name) ==
    (CHOOSE i \in DOMAIN gleamSemanticTokenTypes :
        gleamSemanticTokenTypes[i] = name) - 1

\* C18: a recognized capture whose start row is greater than its end row
\* is handed to _splitLine, which returns (the first token on the start
\* row, the last on the end row), and no token made for it has a negative
\* length.
C18_ReversedSpanTolerated ==
    Mapped =>
        \A i \in DOMAIN Caps :
            (Recognized(Caps[i]) /\ StartRow(Caps[i]) > EndRow(Caps[i])) =>
                /\ \E j \in DOMAIN splitCalls :
                      /\ splitCalls[j].start = Caps[i].node.startPosition
                      /\ splitCalls[j].end = Caps[i].node.endPosition
                      /\ splitCalls[j].token.type = Caps[i].name
                /\ Len(mapped[i]) = 2
                /\ mapped[i][1].line = StartRow(Caps[i])
                /\ mapped[i][2].line = EndRow(Caps[i])
                /\ \A k \in DOMAIN mapped[i] : mapped[i][k].length >= 0

\* a reversed span whose end column is less than its start column went
\* through the splitter
C18_Witness ==
    /\ normPc = "done"
    /\ \E i \in DOMAIN Caps :
          /\ Recognized(Caps[i])
          /\ StartRow(Caps[i]) > EndRow(Caps[i]) + 1
          /\ EndColumn(Caps[i]) < StartColumn(Caps[i])
          /\ mapped[i] # <<>>
    /\ splitCalls # <<>>

\* C19: every tuple pushed to the builder has as its type code the legend
\* index of its token's type, within the legend, and 0 as its modifier
\* bits; there are as many tuples as tokens, all of recognized captures.
C19_PushedCodesInLegend ==
    normPc = "done" =>
        /\ Len(builder) = Len(tokens)
        /\ \A k \in DOMAIN builder :
              /\ builder[k][4] = LegendIndex(tokens[k].type)
              /\ builder[k][4] >= 0
              /\ builder[k][4] < Len(gleamSemanticTokenTypes)
              /\ builder[k][5] = 0
              /\ \E i \in DOMAIN Caps :
                    Recognized(Caps[i]) /\ Caps[i].name = tokens[k].type

\* tuples of both legend entries were pushed while the query result held
\* the sentinel name and another name the legend lacks
C19_Witness ==
    /\ normPc = "done"
    /\ \E k, l \in DOMAIN builder : builder[k][4] = 0 /\ builder[l][4] = 1
    /\ \E i, j \in DOMAIN Caps :
          Caps[i].name = "notInLegend" /\ Caps[j].name = "unknown_future_node"

(***************************************************************************)
(* Claims on _encodeTokenType and _splitLine, checked under SpecCalls.     *)
(***************************************************************************)
\* C15: _encodeTokenType returns the legend index of a name of the
\* legend, the legend's size plus 2 for "notInLegend" when the legend
\* lacks it, and 0 for every other name.
C15_EncodeTokenType ==
    normPc = "done" =>
        \A i \in DOMAIN Caps :
            builder[i] =
                IF \E k \in DOMAIN gleamSemanticTokenTypes :
                       gleamSemanticTokenTypes[k] = Caps[i].name
                THEN LegendIndex(Caps[i].name)
                ELSE IF Caps[i].name = "notInLegend"
                     THEN Len(gleamSemanticTokenTypes) + 2
                     ELSE 0

\* the encoder was called with a legend name that is not the first, with
\* the sentinel and with another name the legend lacks
C15_Witness ==
    /\ normPc = "done"
    /\ \E i, j, k \in DOMAIN Caps :
          /\ Caps[i].name = "operator" /\ builder[i] = 1
          /\ Caps[j].name = "notInLegend" /\ builder[j] = 4
          /\ Caps[k].name = "unknown_future_node" /\ builder[k] = 0

\* the k-th token C17 describes for a call with these arguments
SplitToken(c, k) ==
    [line |-> StartRow(c) + k - 1,
     startCharacter |-> IF k = 1 THEN StartColumn(c) ELSE 0,
     length |-> IF k = EndRow(c) - StartRow(c) + 1 THEN EndColumn(c) ELSE 65535,
     type |-> c.name,
     modifiers |-> <<c.name>>]

\* C17: _splitLine called with start.row < end.row returns
\* end.row - start.row + 1 tokens, one on every row from start.row to
\* end.row in order: the first from start.column with length 65535, those
\* in between from 0 with length 65535, the last from 0 with length
\* end.column, all with the type and the modifiers of the token passed.
C17_SplitLine ==
    normPc # "split" =>
        \A i \in DOMAIN Caps :
            StartRow(Caps[i]) < EndRow(Caps[i]) =>
                /\ splitCalls[i].token = CallToken(Caps[i])
                /\ Len(mapped[i]) = EndRow(Caps[i]) - StartRow(Caps[i]) + 1
                /\ \A k \in DOMAIN mapped[i] : mapped[i][k] = SplitToken(Caps[i], k)

\* the splitter was called for a span of three rows and for a span of two
C17_Witness ==
    /\ normPc # "split"
    /\ \E i, j \in DOMAIN Caps :
          /\ EndRow(Caps[i]) = StartRow(Caps[i]) + 2
          /\ Len(mapped[i]) = 3
          /\ EndRow(Caps[j]) = StartRow(Caps[j]) + 1
          /\ Len(mapped[j]) = 2

====
